---- MODULE Spec2Model ----
(***************************************************************************)
(* Model of octosql's physical execution layer: the Map operator, the      *)
(* expression subsystem (FieldExpression, Constant, Subquery) of           *)
(* src/physical/map.rs and the JSONSource of src/physical/json.rs.         *)
(*                                                                         *)
(* Values are naturals.  A Boolean is 0 (false) or 1 (true); the type tag  *)
(* of the array or scalar tells which.  An array is [type, vals], a batch  *)
(* is [schema, columns] with the retraction array last, a scope of the     *)
(* variable chain is [schema, variables] and a chain is a sequence of      *)
(* scopes, nearest first (chain[1] is ctx.variable_context, the `previous` *)
(* of chain[i] is chain[i+1], the last scope has previous = None).         *)
(***************************************************************************)
EXTENDS Integers, Sequences, FiniteSets, TLC

VARIABLES
    \* ---- pipeline source -> Map -> produce
    exprs, names, keep, ctx, srcKind, srcSchema, file,
    pc, result, outSchema, emitted, produced, lastSrc, lastOut,
    metaSent, metaDelivered,
    \* ---- FieldExpression::evaluate, one loop iteration per step
    feField, feRecord, fePc, feCursor, feResult, feIters, feConsulted,
    \* ---- Subquery::evaluate, one outer row per step
    sqQuery, sqRecord, sqPc, sqRow, sqBuffer, sqRuns, sqResult

pipeVars == <<exprs, names, keep, srcKind, srcSchema, file, pc, result, outSchema,
              emitted, produced, lastSrc, lastOut, metaSent, metaDelivered>>
fieldVars == <<feField, feRecord, fePc, feCursor, feResult, feIters, feConsulted>>
sqVars == <<sqQuery, sqRecord, sqPc, sqRow, sqBuffer, sqRuns, sqResult>>
vars == <<pipeVars, ctx, fieldVars, sqVars>>

(***************************************************************************)
(* Bounds of the model.                                                    *)
(***************************************************************************)
MaxRows == 2        \* rows of a batch of the generic source / of an evaluated batch
MaxBatches == 2     \* batches the generic source emits
MaxExprs == 2       \* expressions of a Map
MaxDepth == 3       \* scopes of a variable chain
MaxMeta == 1        \* meta signals the generic source sends
MaxFileRows == 7    \* rows of the JSON file
BATCH_SIZE == 3     \* rows of a full batch (BATCH_SIZE of physical.rs, scaled down)

(***************************************************************************)
(* Data model.                                                             *)
(***************************************************************************)
RetractionsField == "retraction"

Field(n, t) == [name |-> n, type |-> t]
Array(t, vs) == [type |-> t, vals |-> vs]
NoArray == Array("None", <<>>)
Scalar(t, v) == [type |-> t, val |-> v]
NullValue == Scalar("Null", 0)
Scope(s, vs) == [schema |-> s, variables |-> vs]
Batch(s, cs) == [schema |-> s, columns |-> cs]
NoBatch == Batch(<<>>, <<>>)

\* Result<ArrayRef, Error>, with a third outcome for a panic (unimplemented!, unwrap).
Ok(a) == [kind |-> "Ok", array |-> a, err |-> ""]
Err(e) == [kind |-> "Err", array |-> NoArray, err |-> e]
Panic == [kind |-> "Panic", array |-> NoArray, err |-> ""]
Pending == [kind |-> "none", array |-> NoArray, err |-> ""]

Repeat(v, n) == [i \in 1..n |-> v]
NumColumns(batch) == Len(batch.columns)
\* RecordBatch::num_rows is the length of the first column.
NumRows(batch) == IF batch.columns = <<>> THEN 0 ELSE Len(batch.columns[1].vals)
Front(s) == SubSeq(s, 1, Len(s) - 1)
LastOf(s) == s[Len(s)]

\* Schema::index_of / field_with_name: the first field of that name, 0 when none.
IndexOf(schema, name) ==
    IF \E i \in 1..Len(schema) : schema[i].name = name
    THEN CHOOSE i \in 1..Len(schema) :
            /\ schema[i].name = name
            /\ \A j \in 1..(i - 1) : schema[j].name # name
    ELSE 0

(***************************************************************************)
(* Constant::evaluate: only ScalarValue::Int64 is materialized, every      *)
(* other variant reaches unimplemented!().                                 *)
(***************************************************************************)
ConstantEvaluate(value, record) ==
    IF value.type = "Int64"
    THEN Ok(Array("Int64", Repeat(value.val, NumRows(record))))
    ELSE Panic

(***************************************************************************)
(* FieldExpression.  Previous is var_ctx.previous of the scope at index i  *)
(* (0 is None).                                                            *)
(***************************************************************************)
PreviousStuck(chain, i) == i

Previous(chain, i) == IF i < Len(chain) THEN i + 1 ELSE 0

\* The scope the loop of evaluate stops at, walking from scope i: 0 when the
\* walk reaches None.
RECURSIVE WalkChain(_, _, _)
WalkChain(chain, i, name) ==
    IF i = 0 THEN 0
    ELSE IF IndexOf(chain[i].schema, name) # 0 THEN i
    ELSE WalkChain(chain, Previous(chain, i), name)

\* The value bound in the scope the loop stopped at, broadcast by Constant.
Broadcast(chain, i, name, record) ==
    ConstantEvaluate(chain[i].variables[IndexOf(chain[i].schema, name)], record)

FieldEvaluate(name, chain, record) ==
    LET index == IndexOf(record.schema, name)
        found == WalkChain(chain, 1, name)
    IN  IF index # 0 THEN Ok(record.columns[index])
        ELSE IF found # 0 THEN Broadcast(chain, found, name, record)
        ELSE Err("NameResolution")

(***************************************************************************)
(* Inputs of the expression specifications.                                *)
(***************************************************************************)
\* Data column c of a batch of n rows: row i holds base + 10 * c + i.
DataColumn(base, c, n) == Array("Int64", [i \in 1..n |-> base + 10 * c + i])

NoRetractions(n) == Array("Boolean", Repeat(0, n))

RetractionField == Field(RetractionsField, "Boolean")

FieldNames == {"x", "y"}

FieldRecordSchemas ==
    { <<Field("a", "Int64")>>,
      <<Field("x", "Int64")>>,
      <<Field("a", "Int64"), Field("x", "Int64")>> }

FieldRecords ==
    { Batch(s \o <<RetractionField>>,
            [c \in 1..Len(s) |-> DataColumn(0, c, n)] \o <<NoRetractions(n)>>) :
        s \in FieldRecordSchemas, n \in 0..MaxRows }

FieldScopes ==
    { Scope(<<>>, <<>>),
      Scope(<<Field("x", "Int64")>>, <<Scalar("Int64", 5)>>),
      Scope(<<Field("x", "Int64")>>, <<Scalar("Int64", 7)>>),
      Scope(<<Field("x", "Null")>>, <<NullValue>>),
      Scope(<<Field("y", "Int64"), Field("x", "Int64")>>,
            <<Scalar("Int64", 9), Scalar("Int64", 8)>>),
      Scope(<<Field("y", "Int64")>>, <<Scalar("Int64", 9)>>) }

Chains(scopes) == UNION { [1..d -> scopes] : d \in 1..MaxDepth }

(***************************************************************************)
(* Idle values of the parts a specification does not run.                  *)
(***************************************************************************)
PipeIdle ==
    /\ exprs = <<>> /\ names = <<>> /\ keep = FALSE
    /\ srcKind = "none" /\ srcSchema = <<>> /\ file = 0
    /\ pc = "idle" /\ result = "none" /\ outSchema = <<>>
    /\ emitted = 0 /\ produced = 0 /\ lastSrc = NoBatch /\ lastOut = NoBatch
    /\ metaSent = 0 /\ metaDelivered = <<>>

FieldIdle ==
    /\ feField = "" /\ feRecord = NoBatch /\ fePc = "idle" /\ feCursor = 0
    /\ feResult = Pending /\ feIters = 0 /\ feConsulted = {}

SqIdle ==
    /\ sqQuery = "" /\ sqRecord = NoBatch /\ sqPc = "idle" /\ sqRow = 0
    /\ sqBuffer = <<>> /\ sqRuns = <<>> /\ sqResult = Pending

(***************************************************************************)
(* FieldExpression::evaluate, step by step: the lookup in the record's     *)
(* schema, then one iteration of the loop over the variable chain per      *)
(* step.  feCursor is the loop's variable_context (0 is None).             *)
(***************************************************************************)
InitField ==
    /\ PipeIdle /\ SqIdle
    /\ feField \in FieldNames
    /\ feRecord \in FieldRecords
    /\ ctx \in Chains(FieldScopes)
    /\ fePc = "start" /\ feCursor = 0 /\ feResult = Pending
    /\ feIters = 0 /\ feConsulted = {}

FieldEvalStart ==
    /\ fePc = "start"
    /\ LET index == IndexOf(feRecord.schema, feField)
       IN  IF index = 0
           THEN /\ feCursor' = 1
                /\ fePc' = "loop"
                /\ feResult' = feResult
           ELSE /\ feResult' = Ok(feRecord.columns[index])
                /\ fePc' = "done"
                /\ feCursor' = feCursor
    /\ UNCHANGED <<feField, feRecord, feIters, feConsulted, ctx, pipeVars, sqVars>>

FieldEvalLoop ==
    /\ fePc = "loop"
    /\ feIters' = feIters + 1
    /\ IF feCursor # 0
       THEN /\ feConsulted' = feConsulted \cup {feCursor}
            /\ IF IndexOf(ctx[feCursor].schema, feField) # 0
               THEN /\ feResult' = Broadcast(ctx, feCursor, feField, feRecord)
                    /\ fePc' = "done"
                    /\ feCursor' = feCursor
               ELSE /\ feCursor' = Previous(ctx, feCursor)
                    /\ UNCHANGED <<feResult, fePc>>
       ELSE /\ feResult' = Err("NameResolution")
            /\ fePc' = "done"
            /\ UNCHANGED <<feCursor, feConsulted>>
    /\ UNCHANGED <<feField, feRecord, ctx, pipeVars, sqVars>>

NextField == FieldEvalStart \/ FieldEvalLoop

SpecField == InitField /\ [][NextField]_vars

(***************************************************************************)
(* Claims about FieldExpression::evaluate.                                 *)
(***************************************************************************)
InRecord == IndexOf(feRecord.schema, feField) # 0

BindingScopes == { i \in 1..Len(ctx) : IndexOf(ctx[i].schema, feField) # 0 }

Nearest == CHOOSE i \in BindingScopes : \A j \in BindingScopes : i <= j

NearestValue == ctx[Nearest].variables[IndexOf(ctx[Nearest].schema, feField)]

\* The step model and the closed form used by Map agree on the final result.
FieldStepsAgree ==
    fePc = "done" => feResult = FieldEvaluate(feField, ctx, feRecord)

\* C3 (as stated): a field absent from the record's schema and bound to v in the
\* nearest enclosing scope that defines it evaluates to an array of the record's
\* row count holding v in every entry, for every scalar value v (null included);
\* a field of the record's schema evaluates to the record's own column and no
\* scope is consulted.
C3_FieldBroadcastAnyScalar ==
    fePc = "done" =>
        /\ (~InRecord /\ BindingScopes # {}) =>
              feResult = Ok(Array(NearestValue.type,
                                  Repeat(NearestValue.val, NumRows(feRecord))))
        /\ InRecord =>
              /\ feResult = Ok(feRecord.columns[IndexOf(feRecord.schema, feField)])
              /\ feConsulted = {}

\* C3 restricted to the scalar type Constant::evaluate implements (Int64): holds.
FieldBroadcastInt64 ==
    fePc = "done" =>
        /\ (~InRecord /\ BindingScopes # {} /\ NearestValue.type = "Int64") =>
              feResult = Ok(Array("Int64", Repeat(NearestValue.val, NumRows(feRecord))))
        /\ InRecord =>
              /\ feResult = Ok(feRecord.columns[IndexOf(feRecord.schema, feField)])
              /\ feConsulted = {}

Unresolvable == ~InRecord /\ BindingScopes = {}

\* C4: a field that is in neither the record's schema nor any scope of the chain
\* makes evaluate stop after at most one iteration per scope plus one (it is
\* never stuck before it returns) and return the name-resolution error, never
\* an array.
C4_UnresolvedFieldFails ==
    Unresolvable =>
        /\ feIters <= Len(ctx) + 1
        /\ feResult.kind # "Ok"
        /\ fePc = "done" => feResult = Err("NameResolution")
        /\ fePc # "done" => ENABLED NextField

C4_Witness ==
    /\ Unresolvable /\ fePc = "done" /\ Len(ctx) >= 2
    /\ feIters = Len(ctx) + 1 /\ feResult = Err("NameResolution")

(***************************************************************************)
(* Subquery.  The inner query is a Node of the environment: InnerRun is    *)
(* what its run pushes (and returns) under a given variable chain.  The    *)
(* queries of the model echo the first value of the nearest scope (the     *)
(* outer row's first column) as a single row, except on the value `on`,    *)
(* where they misbehave as `bad` says.                                     *)
(***************************************************************************)
InnerQuery(b, o) == [bad |-> b, on |-> o]

InnerBatch(t, vs) ==
    Batch(<<Field("v", t), RetractionField>>, <<Array(t, vs), NoRetractions(Len(vs))>>)

RunOk(bs) == [res |-> "Ok", batches |-> bs]
RunErr == [res |-> "Err", batches |-> <<>>]

InnerRun(q, chain) ==
    LET v == chain[1].variables[1]
        one == InnerBatch(v.type, <<v.val>>)
    IN  IF q.bad = "none" \/ v.val # q.on THEN RunOk(<<one>>)
        ELSE IF q.bad = "Err" THEN RunErr
        ELSE IF q.bad = "twoRows" THEN RunOk(<<InnerBatch(v.type, <<v.val, v.val>>)>>)
        ELSE IF q.bad = "zeroRows" THEN RunOk(<<InnerBatch(v.type, <<>>)>>)
        ELSE IF q.bad = "twoBatches" THEN RunOk(<<one, one>>)
        ELSE RunOk(<<>>)

\* self.query.schema(SchemaContextWithSchema {previous, schema}): the echo
\* queries report the type of the first field of the nearest schema.
InnerSchema(q, recordSchema) == <<Field("v", recordSchema[1].type), RetractionField>>

\* create_row(record.columns(), i, &mut row): the scalars of row i, one per column.
CreateRow(record, i) ==
    [c \in 1..NumColumns(record) |->
        Scalar(record.columns[c].type, record.columns[c].vals[i])]

\* ExecutionContext { variable_context: VariableContext { previous: Some(ctx), schema, variables: row } }
Extend(chain, record, i) == <<Scope(record.schema, CreateRow(record, i))>> \o chain

(***************************************************************************)
(* Arrow's value buffer (data().buffers()[0]) of an array and make_array   *)
(* over a raw buffer: an Int64 takes 8 little-endian bytes, Booleans are   *)
(* bit-packed, 8 to a byte, least significant bit first.                   *)
(***************************************************************************)
Pow2(k) == 2 ^ k

\* The k low bytes of v, least significant first.
RECURSIVE LittleEndian(_, _)
LittleEndian(v, k) == IF k = 0 THEN <<>> ELSE <<v % 256>> \o LittleEndian(v \div 256, k - 1)

Int64Bytes(v) == LittleEndian(v, 8)

RECURSIVE ConcatAll(_)
ConcatAll(ss) == IF ss = <<>> THEN <<>> ELSE Head(ss) \o ConcatAll(Tail(ss))

BoolByte(vals, b) ==
    LET lo == 8 * (b - 1)
        bit(k) == IF lo + k <= Len(vals) THEN vals[lo + k] * Pow2(k - 1) ELSE 0
    IN  bit(1) + bit(2) + bit(3) + bit(4) + bit(5) + bit(6) + bit(7) + bit(8)

ValuesBuffer(array) ==
    IF array.type = "Boolean"
    THEN [b \in 1..((Len(array.vals) + 7) \div 8) |-> BoolByte(array.vals, b)]
    ELSE ConcatAll([i \in 1..Len(array.vals) |-> Int64Bytes(array.vals[i])])

\* The number held by the k bytes of buffer after position lo.
RECURSIVE FromLittleEndian(_, _, _)
FromLittleEndian(buffer, lo, k) ==
    IF k = 0 THEN 0 ELSE buffer[lo + 1] + 256 * FromLittleEndian(buffer, lo + 1, k - 1)

Int64At(buffer, i) == FromLittleEndian(buffer, 8 * (i - 1), 8)

BoolAt(buffer, i) == (buffer[((i - 1) \div 8) + 1] \div Pow2((i - 1) % 8)) % 2

\* builder.add_buffer(buffer).len(n).build(), then make_array by data type.
MakeArray(type, buffer, n) ==
    Array(type, [i \in 1..n |-> IF type = "Boolean" THEN BoolAt(buffer, i)
                                                     ELSE Int64At(buffer, i)])

\* One iteration of the row loop of Subquery::evaluate: the inner run under
\* the extended context, the cardinality checks, the bytes appended.
RowStep(q, chain, record, i, buffer) ==
    LET inner == Extend(chain, record, i)
        run == InnerRun(q, inner)
    IN  IF run.res = "Err" THEN [out |-> Err("Inner"), buffer |-> buffer, ctx |-> inner, run |-> run]
        ELSE IF Len(run.batches) # 1 THEN [out |-> Panic, buffer |-> buffer, ctx |-> inner, run |-> run]
        ELSE IF NumRows(run.batches[1]) # 1 THEN [out |-> Panic, buffer |-> buffer, ctx |-> inner, run |-> run]
        ELSE [out |-> Pending,
              buffer |-> buffer \o ValuesBuffer(run.batches[1].columns[1]),
              ctx |-> inner, run |-> run]

SubqueryOutputType(q, record) == InnerSchema(q, record.schema)[1].type

RECURSIVE SubqueryRows(_, _, _, _, _)
SubqueryRows(q, chain, record, i, buffer) ==
    IF i > NumRows(record)
    THEN Ok(MakeArray(SubqueryOutputType(q, record), buffer, NumRows(record)))
    ELSE LET step == RowStep(q, chain, record, i, buffer)
         IN  IF step.out.kind # "none" THEN step.out
             ELSE SubqueryRows(q, chain, record, i + 1, step.buffer)

SubqueryEvaluate(q, chain, record) == SubqueryRows(q, chain, record, 1, <<>>)

(***************************************************************************)
(* Subquery::evaluate, one outer row per step.                             *)
(***************************************************************************)
SubqueryValues(t) == IF t = "Boolean" THEN {0, 1} ELSE {0, 1, 258}

SubqueryRecords ==
    UNION { { Batch(<<Field("k", t), RetractionField>>,
                    <<Array(t, vs), NoRetractions(n)>>) :
                vs \in [1..n -> SubqueryValues(t)] } :
            t \in {"Int64", "Boolean"}, n \in 0..MaxRows }

InnerQueries ==
    {InnerQuery("none", 0)} \cup
    { InnerQuery(b, o) :
        b \in {"Err", "twoRows", "zeroRows", "twoBatches", "zeroBatches"}, o \in {0, 1} }

SubqueryChains ==
    { <<Scope(<<>>, <<>>)>>,
      <<Scope(<<Field("x", "Int64")>>, <<Scalar("Int64", 5)>>), Scope(<<>>, <<>>)>> }

InitSubquery ==
    /\ PipeIdle /\ FieldIdle
    /\ sqQuery \in InnerQueries
    /\ sqRecord \in SubqueryRecords
    /\ ctx \in SubqueryChains
    /\ sqPc = "start" /\ sqRow = 0 /\ sqBuffer = <<>> /\ sqRuns = <<>>
    /\ sqResult = Pending

\* Lines 220-226: the inner schema, the builder and the empty buffer.
SubqueryStart ==
    /\ sqPc = "start"
    /\ sqPc' = "rows"
    /\ sqRow' = 0
    /\ sqBuffer' = <<>>
    /\ UNCHANGED <<sqQuery, sqRecord, sqRuns, sqResult, ctx, pipeVars, fieldVars>>

\* Lines 228-268: the body of the row loop for row sqRow + 1.
SubqueryRow ==
    /\ sqPc = "rows"
    /\ sqRow < NumRows(sqRecord)
    /\ LET step == RowStep(sqQuery, ctx, sqRecord, sqRow + 1, sqBuffer)
       IN  /\ sqRuns' = Append(sqRuns, [ctx |-> step.ctx, run |-> step.run])
           /\ IF step.out.kind # "none"
              THEN /\ sqResult' = step.out
                   /\ sqPc' = "done"
                   /\ UNCHANGED <<sqRow, sqBuffer>>
              ELSE /\ sqBuffer' = step.buffer
                   /\ sqRow' = sqRow + 1
                   /\ UNCHANGED <<sqResult, sqPc>>
    /\ UNCHANGED <<sqQuery, sqRecord, ctx, pipeVars, fieldVars>>

\* Lines 270-275: the array built from the accumulated buffer.
SubqueryFinish ==
    /\ sqPc = "rows"
    /\ sqRow = NumRows(sqRecord)
    /\ sqResult' = Ok(MakeArray(SubqueryOutputType(sqQuery, sqRecord), sqBuffer,
                                NumRows(sqRecord)))
    /\ sqPc' = "done"
    /\ UNCHANGED <<sqQuery, sqRecord, sqRow, sqBuffer, sqRuns, ctx, pipeVars, fieldVars>>

NextSubquery == SubqueryStart \/ SubqueryRow \/ SubqueryFinish

SpecSubquery == InitSubquery /\ [][NextSubquery]_vars

(***************************************************************************)
(* Claims about Subquery::evaluate.                                        *)
(***************************************************************************)
CardinalityViolated(run) ==
    /\ run.res = "Ok"
    /\ \/ Len(run.batches) # 1
       \/ \E b \in 1..Len(run.batches) : NumRows(run.batches[b]) # 1

SomeRunViolates == \E i \in 1..Len(sqRuns) : CardinalityViolated(sqRuns[i].run)

AllRunsGood ==
    \A i \in 1..Len(sqRuns) :
        sqRuns[i].run.res = "Ok" /\ ~CardinalityViolated(sqRuns[i].run)

\* The step model and the closed form used by Map agree on the final result.
SubqueryStepsAgree ==
    sqPc = "done" => sqResult = SubqueryEvaluate(sqQuery, ctx, sqRecord)

\* C5 (as stated): once an inner run has produced anything but one batch of one
\* row, the evaluation of the batch has ended, returns no array, and its outcome
\* is an error (Err) handed to the caller of evaluate.
C5_CardinalityViolationIsError ==
    SomeRunViolates => (sqPc = "done" /\ sqResult.kind = "Err")

\* The part of C5 that holds: the evaluation ends at the violating run without
\* an array (the outcome is the panic of unimplemented!()).
CardinalityViolationEndsEvaluation ==
    SomeRunViolates =>
        /\ sqPc = "done" /\ sqResult = Panic
        /\ CardinalityViolated(sqRuns[Len(sqRuns)].run)

\* C6 (as stated): when every inner run yields one batch of one row, evaluate
\* over n rows has run the inner query n times, the i-th run under the caller's
\* chain extended by (input schema, values of row i), and returns an array of
\* length n whose entry i is the value the i-th run produced.
C6_SubqueryCollectsInnerValues ==
    (sqPc = "done" /\ AllRunsGood) =>
        /\ Len(sqRuns) = NumRows(sqRecord)
        /\ \A i \in 1..Len(sqRuns) :
              sqRuns[i].ctx = <<Scope(sqRecord.schema, CreateRow(sqRecord, i))>> \o ctx
        /\ sqResult.kind = "Ok"
        /\ Len(sqResult.array.vals) = NumRows(sqRecord)
        /\ \A i \in 1..Len(sqRuns) :
              sqResult.array.vals[i] = sqRuns[i].run.batches[1].columns[1].vals[1]

\* C6 for inner results of type Int64 (one value, eight bytes): holds.
SubqueryCollectsInt64 ==
    (sqPc = "done" /\ AllRunsGood /\ SubqueryOutputType(sqQuery, sqRecord) = "Int64") =>
        /\ Len(sqRuns) = NumRows(sqRecord)
        /\ \A i \in 1..Len(sqRuns) :
              sqRuns[i].ctx = <<Scope(sqRecord.schema, CreateRow(sqRecord, i))>> \o ctx
        /\ sqResult.kind = "Ok"
        /\ Len(sqResult.array.vals) = NumRows(sqRecord)
        /\ \A i \in 1..Len(sqRuns) :
              sqResult.array.vals[i] = sqRuns[i].run.batches[1].columns[1].vals[1]

(***************************************************************************)
(* Expressions of a Map: the three implementations of the Expression       *)
(* trait, as records of one shape.                                         *)
(***************************************************************************)
FieldExpression(n) ==
    [kind |-> "Field", name |-> n, value |-> NullValue, query |-> InnerQuery("none", 0)]
Constant(v) ==
    [kind |-> "Constant", name |-> "", value |-> v, query |-> InnerQuery("none", 0)]
Subquery(q) ==
    [kind |-> "Subquery", name |-> "", value |-> NullValue, query |-> q]

MetaOk(f) == [kind |-> "Ok", field |-> f]
MetaErr == [kind |-> "Err", field |-> Field("", "None")]

\* SchemaContext::field_with_name of the variable chain: the field of the
\* nearest scope whose schema defines the name.
ChainFieldWithName(chain, name) ==
    LET found == WalkChain(chain, 1, name)
    IN  IF found = 0 THEN MetaErr
        ELSE MetaOk(chain[found].schema[IndexOf(chain[found].schema, name)])

\* FieldExpression::field_meta: the record's schema first, then the context.
FieldMeta(name, chain, recordSchema) ==
    LET index == IndexOf(recordSchema, name)
    IN  IF index # 0 THEN MetaOk(recordSchema[index])
        ELSE ChainFieldWithName(chain, name)

\* Constant::field_meta: typed by the literal.
ConstantFieldMeta(value) == MetaOk(Field("", value.type))

\* Subquery::field_meta: the first field of the inner query's schema.
SubqueryFieldMeta(q, recordSchema) == MetaOk(InnerSchema(q, recordSchema)[1])

ExprFieldMeta(e, chain, recordSchema) ==
    IF e.kind = "Field" THEN FieldMeta(e.name, chain, recordSchema)
    ELSE IF e.kind = "Constant" THEN ConstantFieldMeta(e.value)
    ELSE SubqueryFieldMeta(e.query, recordSchema)

ExprEvaluate(e, chain, record) ==
    IF e.kind = "Field" THEN FieldEvaluate(e.name, chain, record)
    ELSE IF e.kind = "Constant" THEN ConstantEvaluate(e.value, record)
    ELSE SubqueryEvaluate(e.query, chain, record)

(***************************************************************************)
(* Map::schema.                                                            *)
(***************************************************************************)
\* Lines 47-53: the source's fields but the last, the new fields, retraction.
MapSchemaFieldsKeepAll(sourceSchema, newFields, keepSource) ==
    (IF keepSource THEN sourceSchema \o newFields ELSE newFields)
        \o <<RetractionField>>

MapSchemaFields(sourceSchema, newFields, keepSource) ==
    (IF keepSource THEN Front(sourceSchema) \o newFields ELSE newFields)
        \o <<RetractionField>>

\* A failing field_meta reaches unimplemented!() (line 42).
MapSchema(sourceSchema, es, ns, keepSource, chain) ==
    LET metas == [i \in 1..Len(es) |-> ExprFieldMeta(es[i], chain, sourceSchema)]
    IN  IF \E i \in 1..Len(es) : metas[i].kind = "Err"
        THEN [kind |-> "Panic", schema |-> <<>>]
        ELSE [kind |-> "Ok",
              schema |-> MapSchemaFields(sourceSchema,
                             [i \in 1..Len(es) |-> Field(ns[i], metas[i].field.type)],
                             keepSource)]

(***************************************************************************)
(* The closure Map::run hands to its source (lines 67-86).                 *)
(***************************************************************************)
\* collect::<Result<_, _>>()?: the first expression, in order, that does not
\* return an array decides; 0 when all do.
FirstFailure(outs) ==
    IF \E i \in 1..Len(outs) : outs[i].kind # "Ok"
    THEN CHOOSE i \in 1..Len(outs) :
            /\ outs[i].kind # "Ok"
            /\ \A j \in 1..(i - 1) : outs[j].kind = "Ok"
    ELSE 0

\* Lines 73-80: the new arrays, the source's retraction column, and in front
\* of them the source's columns but the last when keep_source_fields.
MapNewColumnsFreshFlags(batch, arrays, keepSource) ==
    (IF keepSource THEN Front(batch.columns) ELSE <<>>)
        \o arrays \o <<NoRetractions(NumRows(batch))>>

MapNewColumns(batch, arrays, keepSource) ==
    LET newColumns == arrays \o <<batch.columns[NumColumns(batch)]>>
    IN  IF keepSource THEN Front(batch.columns) \o newColumns ELSE newColumns

\* RecordBatch::try_new: as many columns as fields, of the fields' types, of
\* one length.
TryNewOk(schema, columns) ==
    /\ Len(schema) = Len(columns)
    /\ \A i \in 1..Len(columns) : columns[i].type = schema[i].type
    /\ \A i, j \in 1..Len(columns) : Len(columns[i].vals) = Len(columns[j].vals)

\* The closure up to the call of produce: [kind, batch].
MapTransform(batch, es, keepSource, chain, schema) ==
    LET outs == [i \in 1..Len(es) |-> ExprEvaluate(es[i], chain, batch)]
        bad == FirstFailure(outs)
        columns == MapNewColumns(batch, [i \in 1..Len(es) |-> outs[i].array], keepSource)
    IN  IF bad # 0 THEN [kind |-> outs[bad].kind, batch |-> NoBatch]
        ELSE IF ~TryNewOk(schema, columns) THEN [kind |-> "Panic", batch |-> NoBatch]
        ELSE [kind |-> "Ok", batch |-> Batch(schema, columns)]

\* The meta_send Map::run hands to its source: noop_meta_send (line 87).
MetaSendOfMap(delivered, signal) == delivered

(***************************************************************************)
(* JSONSource::run.                                                        *)
(***************************************************************************)
Min(a, b) == IF a < b THEN a ELSE b

\* The reader built with_batch_size(BATCH_SIZE): the rows of the next record
\* batch after `consumed` rows of a file of `rows` rows, 0 for None.
ReaderNext(rows, consumed) == Min(BATCH_SIZE, rows - consumed)

\* Lines 55-59 and 67-76: the array built once for full batches, a fresh one
\* of the batch's length otherwise.
JSONRetractionArrayShared(columns) == Array("Boolean", Repeat(0, BATCH_SIZE))

JSONRetractionArray(columns) ==
    IF Len(columns[1].vals) = BATCH_SIZE
    THEN Array("Boolean", Repeat(0, BATCH_SIZE))
    ELSE Array("Boolean", Repeat(0, Len(columns[1].vals)))

\* Lines 66-80: the batch pushed for a record of the reader.
JSONBatch(schema, recColumns) == Batch(schema, recColumns \o <<JSONRetractionArray(recColumns)>>)

\* The data columns of the j-th batch of a source, n rows.
DataColumns(schema, j, n) == [c \in 1..(Len(schema) - 1) |-> DataColumn(100 * j, c, n)]

(***************************************************************************)
(* The pipeline source -> Map -> produce.                                  *)
(***************************************************************************)
OutNames == [i \in 1..(MaxExprs + 1) |-> <<"y", "w", "u", "t", "s">>[i]]

MapExprs ==
    { FieldExpression("a"), FieldExpression("x"), FieldExpression("z"),
      Constant(Scalar("Int64", 7)), Subquery(InnerQuery("Err", 211)) }

ExprLists == UNION { [1..n -> MapExprs] : n \in 0..MaxExprs }

SourceSchemas ==
    { <<Field("a", "Int64"), RetractionField>>,
      <<Field("a", "Int64"), Field("b", "Int64"), RetractionField>> }

PipeChains ==
    { <<Scope(<<Field("x", "Int64")>>, <<Scalar("Int64", 5)>>), Scope(<<>>, <<>>)>>,
      <<Scope(<<Field("x", "Null")>>, <<NullValue>>)>> }

Init ==
    /\ FieldIdle /\ SqIdle
    /\ exprs \in ExprLists
    /\ names = SubSeq(OutNames, 1, Len(exprs))
    /\ keep \in BOOLEAN
    /\ ctx \in PipeChains
    /\ srcSchema \in SourceSchemas
    /\ \/ srcKind = "generic" /\ file = 0
       \/ srcKind = "json" /\ file \in 0..MaxFileRows
    /\ pc = "init" /\ result = "none" /\ outSchema = <<>>
    /\ emitted = 0 /\ produced = 0 /\ lastSrc = NoBatch /\ lastOut = NoBatch
    /\ metaSent = 0 /\ metaDelivered = <<>>

pipeConfig == <<exprs, names, keep, srcKind, srcSchema, file, ctx, fieldVars, sqVars>>

\* Map::run up to the call of self.source.run (line 63).
MapRun ==
    /\ pc = "init"
    /\ LET s == MapSchema(srcSchema, exprs, names, keep, ctx)
       IN  IF s.kind = "Panic"
           THEN /\ result' = "Panic" /\ pc' = "done" /\ outSchema' = outSchema
           ELSE /\ outSchema' = s.schema /\ pc' = "source" /\ result' = result
    /\ UNCHANGED <<emitted, produced, lastSrc, lastOut, metaSent, metaDelivered, pipeConfig>>

\* A source of the environment generates its next batch and calls produce.
SourceEmit ==
    /\ pc = "source" /\ srcKind = "generic"
    /\ emitted < MaxBatches
    /\ \E n \in 0..MaxRows : \E flags \in [1..n -> {0, 1}] :
          lastSrc' = Batch(srcSchema,
                           DataColumns(srcSchema, emitted + 1, n) \o <<Array("Boolean", flags)>>)
    /\ emitted' = emitted + 1
    /\ pc' = "closure"
    /\ UNCHANGED <<result, outSchema, produced, lastOut, metaSent, metaDelivered, pipeConfig>>

\* A source of the environment sends a signal on the meta_send it was given.
SourceSendMeta ==
    /\ pc = "source" /\ srcKind = "generic"
    /\ metaSent < MaxMeta
    /\ metaSent' = metaSent + 1
    /\ metaDelivered' = MetaSendOfMap(metaDelivered, metaSent + 1)
    /\ UNCHANGED <<pc, result, outSchema, emitted, produced, lastSrc, lastOut, pipeConfig>>

\* A source of the environment is exhausted: its run returns Ok, and so does Map's.
SourceEnd ==
    /\ pc = "source" /\ srcKind = "generic"
    /\ pc' = "done" /\ result' = "Ok"
    /\ UNCHANGED <<outSchema, emitted, produced, lastSrc, lastOut, metaSent, metaDelivered,
                   pipeConfig>>

\* One iteration of the loop of JSONSource::run, up to the call of produce.
JSONNext ==
    /\ pc = "source" /\ srcKind = "json"
    /\ LET n == ReaderNext(file, emitted * BATCH_SIZE)
       IN  IF n <= 0
           THEN /\ pc' = "done" /\ result' = "Ok"
                /\ UNCHANGED <<emitted, lastSrc>>
           ELSE /\ lastSrc' = JSONBatch(srcSchema, DataColumns(srcSchema, emitted + 1, n))
                /\ emitted' = emitted + 1
                /\ pc' = "closure"
                /\ result' = result
    /\ UNCHANGED <<outSchema, produced, lastOut, metaSent, metaDelivered, pipeConfig>>

\* MapClosure, were it to push no batch for a source batch without rows.
MapClosureSkipsEmpty ==
    /\ pc = "closure"
    /\ LET t == MapTransform(lastSrc, exprs, keep, ctx, outSchema)
       IN  IF t.kind # "Ok"
           THEN /\ result' = t.kind /\ pc' = "done"
                /\ UNCHANGED <<produced, lastOut>>
           ELSE IF NumRows(lastSrc) = 0
           THEN /\ pc' = "source"
                /\ UNCHANGED <<result, produced, lastOut>>
           ELSE /\ lastOut' = t.batch
                /\ produced' = produced + 1
                /\ \/ pc' = "source" /\ result' = result
                   \/ pc' = "done" /\ result' = "Err"
    /\ UNCHANGED <<outSchema, emitted, lastSrc, metaSent, metaDelivered, pipeConfig>>

\* The closure of Map::run on the batch of the source, the downstream produce
\* it calls, and the `?` of the source and of Map::run on its result.
MapClosure ==
    /\ pc = "closure"
    /\ LET t == MapTransform(lastSrc, exprs, keep, ctx, outSchema)
       IN  IF t.kind # "Ok"
           THEN /\ result' = t.kind /\ pc' = "done"
                /\ UNCHANGED <<produced, lastOut>>
           ELSE /\ lastOut' = t.batch
                /\ produced' = produced + 1
                /\ \/ pc' = "source" /\ result' = result
                   \/ pc' = "done" /\ result' = "Err"
    /\ UNCHANGED <<outSchema, emitted, lastSrc, metaSent, metaDelivered, pipeConfig>>

Next == MapRun \/ SourceEmit \/ SourceSendMeta \/ SourceEnd \/ JSONNext \/ MapClosure

Spec == Init /\ [][Next]_vars

(***************************************************************************)
(* Claims about the pipeline.                                              *)
(***************************************************************************)
\* lastOut is the batch pushed for lastSrc: produce has been called for the
\* batch the source generated last.
OutputIsCurrent == produced > 0 /\ produced = emitted

Flags(batch) == batch.columns[NumColumns(batch)].vals

SourceWidth == Len(srcSchema) - 1

NamesOf(schema) == [i \in 1..Len(schema) |-> schema[i].name]

\* C1: the batch Map pushes for a source batch has the source batch's number of
\* rows and, as its last column, the source batch's last column: the same
\* retraction flags in the same order, whatever the expressions and
\* keep_source_fields.
C1_RetractionsPreserved ==
    OutputIsCurrent =>
        /\ NumRows(lastOut) = NumRows(lastSrc)
        /\ lastOut.columns[NumColumns(lastOut)] = lastSrc.columns[NumColumns(lastSrc)]
        /\ \A c \in 1..NumColumns(lastOut) :
              Len(lastOut.columns[c].vals) = Len(Flags(lastSrc))

\* A source batch [(retract, A), (insert, A')] has come out with flags [true, false].
C1_Witness ==
    /\ OutputIsCurrent /\ Len(exprs) = 2
    /\ Flags(lastSrc) = <<1, 0>> /\ Flags(lastOut) = <<1, 0>>

\* C2: with N expressions over S source data columns the output schema and every
\* pushed batch have N + 1 columns without keep_source_fields (the expression
\* outputs under their configured names, then retraction) and S + N + 1 with it
\* (the source's data columns in source order first); schema and batches agree
\* on count and order, N = 0 included.
C2_OutputColumns ==
    LET N == Len(exprs)
        S == SourceWidth
        kept == IF keep THEN S ELSE 0
    IN  /\ pc \in {"source", "closure"} =>
              /\ Len(outSchema) = kept + N + 1
              /\ NamesOf(outSchema) =
                    (IF keep THEN SubSeq(NamesOf(srcSchema), 1, S) ELSE <<>>)
                        \o names \o <<RetractionsField>>
        /\ OutputIsCurrent =>
              /\ lastOut.schema = outSchema
              /\ NumColumns(lastOut) = kept + N + 1
              /\ \A c \in 1..kept : lastOut.columns[c] = lastSrc.columns[c]
              /\ \A i \in 1..N :
                    lastOut.columns[kept + i] = ExprEvaluate(exprs[i], ctx, lastSrc).array
              /\ lastOut.columns[kept + N + 1] = lastSrc.columns[S + 1]

C2_Witness ==
    /\ OutputIsCurrent /\ keep /\ Len(exprs) = 2 /\ SourceWidth = 2
    /\ NumColumns(lastOut) = 5 /\ NumRows(lastOut) > 0

\* C7 (as stated): every signal the source has sent on the meta channel has
\* been delivered, unchanged and in order, to the meta_send of Map::run's caller.
C7_MetaForwarded ==
    metaDelivered = [i \in 1..metaSent |-> i]

SchemaFails ==
    \E i \in 1..Len(exprs) : ExprFieldMeta(exprs[i], ctx, srcSchema).kind = "Err"

EvaluationFails(batch) ==
    \E i \in 1..Len(exprs) : ExprEvaluate(exprs[i], ctx, batch).kind # "Ok"

\* C8 (as stated): a failing field_meta makes run return an Error before any
\* batch; a failing evaluation on the k-th batch makes run return an Error with
\* produce called k - 1 times; an Error of produce is returned; after any of
\* them nothing runs any more.
C8_ErrorsReturned ==
    /\ (pc # "init" /\ SchemaFails) =>
          (pc = "done" /\ result = "Err" /\ emitted = 0 /\ produced = 0)
    /\ (pc # "closure" /\ emitted > 0 /\ EvaluationFails(lastSrc)) =>
          (pc = "done" /\ result = "Err" /\ produced = emitted - 1)
    /\ result # "none" => (pc = "done" /\ ~ENABLED Next)

\* The part of C8 that holds: an Err of an evaluation or of produce is returned
\* by run and halts the pipeline with no batch pushed for the failing
\* evaluation; a panic halts it too.
ErrorsHalt ==
    /\ result # "none" => (pc = "done" /\ ~ENABLED Next)
    /\ (pc # "closure" /\ emitted > 0 /\ EvaluationFails(lastSrc)) =>
          (pc = "done" /\ result \in {"Err", "Panic"} /\ produced = emitted - 1)
    /\ (pc # "init" /\ SchemaFails) =>
          (pc = "done" /\ result = "Panic" /\ emitted = 0 /\ produced = 0)

\* The batches a file of `rows` rows comes in.
BatchesOf(rows) == (rows + BATCH_SIZE - 1) \div BATCH_SIZE

C9_State ==
    /\ produced <= emitted /\ emitted <= produced + 1
    /\ pc = "source" => produced = emitted
    /\ pc = "closure" => emitted = produced + 1
    /\ OutputIsCurrent => NumRows(lastOut) = NumRows(lastSrc)
    /\ (pc = "done" /\ result = "Ok") =>
          /\ produced = emitted
          /\ srcKind = "json" => emitted = BatchesOf(file)
    /\ (OutputIsCurrent /\ srcKind = "json") =>
          NumRows(lastOut) = Min(BATCH_SIZE, file - (produced - 1) * BATCH_SIZE)
    /\ (OutputIsCurrent /\ exprs = <<FieldExpression("a")>> /\ ~keep) =>
          /\ NamesOf(lastOut.schema) = <<"y", RetractionsField>>
          /\ lastOut.columns = <<lastSrc.columns[1], lastSrc.columns[NumColumns(lastSrc)]>>
          /\ srcKind = "json" => \A i \in 1..NumRows(lastOut) : Flags(lastOut)[i] = 0

C9_Step ==
    /\ emitted' # emitted =>
          (emitted' = emitted + 1 /\ produced = emitted /\ produced' = produced)
    /\ produced' # produced =>
          /\ produced' = produced + 1 /\ emitted' = emitted /\ lastSrc' = lastSrc
          /\ NumRows(lastOut') = NumRows(lastSrc)
    /\ (pc = "source" /\ srcKind = "json" /\ emitted * BATCH_SIZE >= file) =>
          (pc' = "done" /\ result' = "Ok" /\ produced' = produced)

\* C9: produce is called once per source batch, in step with the source (the
\* source generates a batch only when produce has been called for every batch
\* before it), with the batch's row count; when the source is exhausted run
\* returns Ok and produce has been called once for each of its batches.  A Map
\* selecting one source field as "y" pushes batches of the two columns
\* ("y", retraction), the source's values and flags in them.
C9_BatchForBatch == []C9_State /\ [][C9_Step]_vars

\* A file of BATCH_SIZE + 1 rows has gone through as a full batch and a batch
\* of one row.
C9_Witness ==
    /\ srcKind = "json" /\ file = BATCH_SIZE + 1
    /\ exprs = <<FieldExpression("a")>> /\ ~keep
    /\ pc = "done" /\ result = "Ok" /\ produced = 2
    /\ NumRows(lastOut) = 1 /\ NumColumns(lastOut) = 2

\* C10: every batch JSONSource pushes has at most BATCH_SIZE rows (the rows of
\* the file in order, BATCH_SIZE at a time), columns of one length with the
\* retraction column last and false in every row; run returns Ok only when the
\* file is exhausted.
C10_JSONBatches ==
    srcKind = "json" =>
        /\ emitted > 0 =>
              /\ NumRows(lastSrc) <= BATCH_SIZE
              /\ NumRows(lastSrc) = Min(BATCH_SIZE, file - (emitted - 1) * BATCH_SIZE)
              /\ NumRows(lastSrc) > 0
              /\ \A c \in 1..NumColumns(lastSrc) :
                    Len(lastSrc.columns[c].vals) = NumRows(lastSrc)
              /\ NumColumns(lastSrc) = Len(srcSchema)
              /\ lastSrc.schema[NumColumns(lastSrc)] = RetractionField
              /\ lastSrc.columns[NumColumns(lastSrc)].type = "Boolean"
              /\ \A i \in 1..NumRows(lastSrc) : Flags(lastSrc)[i] = 0
              /\ \A c \in 1..SourceWidth :
                    lastSrc.columns[c] = DataColumn(100 * emitted, c, NumRows(lastSrc))
        /\ (pc = "done" /\ result = "Ok") => emitted * BATCH_SIZE >= file

\* A full batch has been followed by the shorter final batch.
C10_Witness ==
    /\ srcKind = "json" /\ emitted = 2 /\ pc = "done" /\ result = "Ok"
    /\ NumRows(lastSrc) > 0 /\ NumRows(lastSrc) < BATCH_SIZE
    /\ Len(Flags(lastSrc)) = NumRows(lastSrc)

====
